---------------------------- MODULE Spec2Model ----------------------------
(***************************************************************************)
(* A model of the llms-experiments benchmark harness:                      *)
(*   - the four provider adapters (providers/*.py), one generate call      *)
(*     followed step by step through its stream loop;                      *)
(*   - the orchestrator and tabular sink of experiment/runner.py           *)
(*     (run_task and main).                                                *)
(*                                                                         *)
(* Python values are represented as follows.                               *)
(*   Optional[T]   None is <<>>, a present value v is <<v>>                *)
(*   str (texts)   a sequence of one-character strings                     *)
(*   dict          a function whose domain is the set of keys              *)
(*   perf_counter  an integer number of clock ticks (seconds)              *)
(***************************************************************************)
EXTENDS Integers, Sequences, FiniteSets, TLC

(***************************************************************************)
(* Bounds of the model.                                                    *)
(***************************************************************************)
\* most stream events one streaming call delivers before it ends or raises
MaxEvents == 3
\* most ticks the monotonic clock advances between two readings
MaxTick == 1

(***************************************************************************)
(* Python helpers.                                                         *)
(***************************************************************************)
None == <<>>
Some(v) == <<v>>
IsNone(o) == o = None
Val(o) == o[1]

EmptyDict == [k \in {} |-> TRUE]

\* dict.update(o): the keys of o replace or extend those of d
Update(d, o) ==
    [k \in (DOMAIN d) \cup (DOMAIN o) |-> IF k \in DOMAIN o THEN o[k] ELSE d[k]]

\* truth value of an Optional[str]: None and "" are falsy
TruthyText(o) == ~IsNone(o) /\ Val(o) # <<>>
\* truth value of an Optional identifier (an atomic string)
TruthyStr(o) == ~IsNone(o) /\ Val(o) # ""
\* truth value of an Optional[float]: None and 0.0 are falsy
TruthyNum(o) == ~IsNone(o) /\ Val(o) # 0

Whitespace == {" "}

RECURSIVE LStrip(_)
LStrip(s) ==
    IF s # <<>> /\ Head(s) \in Whitespace THEN LStrip(Tail(s)) ELSE s

RECURSIVE RStrip(_)
RStrip(s) ==
    IF s # <<>> /\ s[Len(s)] \in Whitespace
    THEN RStrip(SubSeq(s, 1, Len(s) - 1))
    ELSE s

\* str.strip()
Strip(s) == RStrip(LStrip(s))

RECURSIVE Join(_)
\* "".join(parts)
Join(parts) ==
    IF parts = <<>> THEN <<>> ELSE Head(parts) \o Join(Tail(parts))


(***************************************************************************)
(* Inputs of one generate call and the stream items a vendor can deliver.  *)
(***************************************************************************)
Providers == {"openai", "anthropic", "grok", "gemini"}
ChatProviders == {"anthropic", "grok"}

\* the adapter under test in a single-call run, with the model it is built for
AdapterSpecs ==
    { <<"openai", "gpt-4.1">>, <<"anthropic", "claude-opus-4-1-20250805">>,
      <<"grok", "grok-4-fast-reasoning">>, <<"gemini", "gemini-2.5-pro">> }

\* an image path: its suffix and whether read_bytes() succeeds on it
PngImage == Some([suffix |-> ".png", readable |-> TRUE])
MissingImage == Some([suffix |-> ".png", readable |-> FALSE])
Schema == Some("schema")

\* the arguments of generate: each optional argument present and absent, the
\* prompts empty and not, the image readable and not
Requests ==
    { [system_prompt |-> <<"s">>, user_prompt |-> <<"h", "i">>,
       image_path |-> PngImage, json_schema |-> None],
      [system_prompt |-> <<>>, user_prompt |-> <<"h", "i">>,
       image_path |-> None, json_schema |-> Schema],
      [system_prompt |-> <<"s">>, user_prompt |-> <<>>,
       image_path |-> PngImage, json_schema |-> Schema],
      [system_prompt |-> <<"s">>, user_prompt |-> <<"h", "i">>,
       image_path |-> MissingImage, json_schema |-> None] }

\* configuration overrides (model_configurations)
OverrideSets ==
    { EmptyDict,
      [temperature |-> "0.2"],
      [response_format |-> [type |-> "json_object"]],
      [model |-> "other-model", stream |-> FALSE,
       stream_options |-> [include_usage |-> FALSE]] }

\* the calls observed: every request without overrides, and every override set
\* on the request that carries a schema and no image
CallInputs ==
    { c \in [request : Requests, overrides : OverrideSets] :
        \/ c.overrides = EmptyDict
        \/ ~IsNone(c.request.json_schema) /\ IsNone(c.request.image_path) }

\* text fragments carried by stream events
Fragments == { <<>>, <<"a">>, <<"b">>, <<" ">> }

\* events of the OpenAI stream: a type and, on text deltas, the fragment
OpenAIEvents ==
    [ type : {"response.refuse.delta", "response.error",
              "response.completed", "response.unknown"},
      delta : {<<>>} ]
    \cup [ type : {"response.output_text.delta"}, delta : Fragments ]

\* usage objects; either counter may be missing
Usages ==
    { [prompt_tokens |-> None, completion_tokens |-> None],
      [prompt_tokens |-> Some(1), completion_tokens |-> None],
      [prompt_tokens |-> Some(1), completion_tokens |-> Some(2)],
      [prompt_tokens |-> Some(3), completion_tokens |-> Some(4)] }

\* choices[0].delta of a chat chunk: no choices, no delta, no content, a piece
ChoiceShapes ==
    { <<>>, << [delta |-> None] >>, << [delta |-> Some([content |-> None])] >> }
    \cup { << [delta |-> Some([content |-> Some(p)])] >> : p \in Fragments }

\* chunks of the OpenAI-compatible chat stream used for Anthropic and Grok
ChatChunks ==
    [ model : {Some("served-model")}, usage : {None}, choices : ChoiceShapes ]
    \cup [ model : {None, Some("served-model-2")}, usage : {Some(u) : u \in Usages},
           choices : { <<>> } ]
    \cup [ model : {None}, usage : {Some([prompt_tokens |-> Some(3),
                                          completion_tokens |-> Some(4)])},
           choices : { << [delta |-> Some([content |-> Some(<<"a">>)])] >> } ]
    \cup [ model : {None}, usage : {None}, choices : { <<>> } ]

GeminiChunks == [ text : {None} \cup {Some(p) : p \in Fragments} ]

StreamItems(p) ==
    IF p = "openai" THEN OpenAIEvents
    ELSE IF p \in ChatProviders THEN ChatChunks
    ELSE GeminiChunks

\* exceptions a streaming call can raise: the class name, str(e), and the
\* status code of e.response when the exception carries a response
Exceptions ==
    { [cls |-> "APITimeoutError", message |-> "Request timed out.", status |-> None],
      [cls |-> "RateLimitError", message |-> "Error code: 429", status |-> Some(429)] }

(***************************************************************************)
(* Request construction.                                                   *)
(***************************************************************************)
Lower(suffix) ==
    CASE suffix = ".PNG" -> ".png"
      [] suffix = ".JPG" -> ".jpg"
      [] suffix = ".JPEG" -> ".jpeg"
      [] suffix = ".WEBP" -> ".webp"
      [] OTHER -> suffix

\* MIME type by file extension, image/png by default
Mime(suffix) ==
    CASE Lower(suffix) = ".png" -> "image/png"
      [] Lower(suffix) = ".jpg" -> "image/jpeg"
      [] Lower(suffix) = ".jpeg" -> "image/jpeg"
      [] Lower(suffix) = ".webp" -> "image/webp"
      [] OTHER -> "image/png"

\* base64.b64encode(p.read_bytes()).decode("utf-8")
Base64(path) == [base64_of |-> path.suffix]

ImageTruthy(req) == ~IsNone(req.image_path)
ImageReadable(req) ==
    IF IsNone(req.image_path) THEN TRUE ELSE Val(req.image_path).readable

SystemMessages(req) ==
    IF req.system_prompt # <<>>
    THEN << [role |-> "system", content |-> req.system_prompt] >>
    ELSE <<>>

OpenAIMessages(req) ==
    LET text == << [type |-> "text", text |-> req.user_prompt] >>
        image == IF ImageTruthy(req)
                 THEN << [type |-> "input_image",
                          image |-> [data |-> Base64(Val(req.image_path))]] >>
                 ELSE <<>>
    IN  SystemMessages(req) \o << [role |-> "user", content |-> text \o image] >>

ChatMessages(req) ==
    LET text == << [type |-> "text", text |-> req.user_prompt] >>
        image == IF ImageTruthy(req)
                 THEN << [type |-> "image_url",
                          image_url |-> [url |-> [mime |-> Mime(Val(req.image_path).suffix),
                                                  data |-> Base64(Val(req.image_path))]]] >>
                 ELSE <<>>
    IN  SystemMessages(req) \o << [role |-> "user", content |-> text \o image] >>

ResponseFormat(req) ==
    [type |-> "json_schema", json_schema |-> Val(req.json_schema)]

WithSchema(kw, req) ==
    IF ~IsNone(req.json_schema)
    THEN Update(kw, [response_format |-> ResponseFormat(req)])
    ELSE kw

OpenAIKwargs(model, req, conf) ==
    WithSchema(Update([model |-> model, messages |-> OpenAIMessages(req)], conf), req)

AnthropicKwargs(model, req, conf) ==
    Update([model |-> model, messages |-> ChatMessages(req), stream |-> TRUE,
            stream_options |-> [include_usage |-> TRUE]], conf)

GrokKwargs(model, req, conf) ==
    WithSchema(Update([model |-> model, messages |-> ChatMessages(req), stream |-> TRUE,
                       stream_options |-> [include_usage |-> TRUE]], conf), req)

GeminiParts(req) ==
    (IF req.system_prompt # <<>> THEN << [text |-> req.system_prompt] >> ELSE <<>>)
    \o (IF ImageTruthy(req)
        THEN << [mime_type |-> Mime(Val(req.image_path).suffix),
                 data |-> [bytes_of |-> Val(req.image_path).suffix]] >>
        ELSE <<>>)
    \o (IF req.user_prompt # <<>> THEN << [text |-> req.user_prompt] >> ELSE <<>>)

GeminiGenConfig(req, conf) ==
    Update(IF ~IsNone(req.json_schema)
           THEN [response_mime_type |-> "application/json",
                 response_schema |-> Val(req.json_schema)]
           ELSE EmptyDict,
           conf)

GeminiKwargs(model, req, conf) ==
    [contents |-> GeminiParts(req), generation_config |-> GeminiGenConfig(req, conf),
     stream |-> TRUE]

\* the parameters of the vendor call
BuildKwargs(p, model, req, conf) ==
    CASE p = "openai" -> OpenAIKwargs(model, req, conf)
      [] p = "anthropic" -> AnthropicKwargs(model, req, conf)
      [] p = "grok" -> GrokKwargs(model, req, conf)
      [] OTHER -> GeminiKwargs(model, req, conf)

\* the mapping the overrides are merged into
OverridableParams(p, kw) == IF p = "gemini" THEN kw.generation_config ELSE kw

(***************************************************************************)
(* The local variables of one generate call and the effect of each stream  *)
(* item on them.                                                           *)
(***************************************************************************)
\* the locals as initialised just before the try block; text is bound later
NewFrame(start) ==
    [ start |-> Some(start), first_token_time |-> None, accum_text_parts |-> <<>>,
      http_status |-> None, error_category |-> None, error_message |-> None,
      input_tokens |-> None, output_tokens |-> None, response_params |-> None,
      text |-> None, end |-> None, ttft_ms |-> None, total_latency_ms |-> None,
      input_chars |-> None, output_chars |-> None ]

\* the locals before generate has reached its first perf_counter() reading
BlankFrame == [NewFrame(0) EXCEPT !.start = None]

\* StampFirstToken with the stamp left out when the clock has not moved since
\* the call started
StampFirstTokenIfLater(f, now) ==
    IF IsNone(f.first_token_time) /\ now > Val(f.start)
    THEN Some(now) ELSE f.first_token_time

\* if first_token_time is None: first_token_time = time.perf_counter()
StampFirstToken(f, now) ==
    IF IsNone(f.first_token_time) THEN Some(now) ELSE f.first_token_time

\* AppendText with the fragment put in front of those received before it
PrependText(f, piece, now) ==
    [f EXCEPT !.first_token_time = StampFirstToken(f, now),
              !.accum_text_parts = << piece >> \o @]

\* a text fragment is appended, stamping the first-token time if still unset
AppendText(f, piece, now) ==
    [f EXCEPT !.first_token_time = StampFirstToken(f, now),
              !.accum_text_parts = Append(@, piece)]

\* OnOpenAIEvent with an event of a type the loop does not know treated as a
\* failure of the stream
OnOpenAIEventStrict(f, ev, now) ==
    CASE ev.type = "response.refuse.delta" -> f
      [] ev.type = "response.error" -> [f EXCEPT !.error_category = Some("api_error")]
      [] ev.type = "response.output_text.delta" -> AppendText(f, ev.delta, now)
      [] ev.type = "response.completed" -> f
      [] OTHER -> [f EXCEPT !.error_category = Some("unknown_event")]

\* one event of the OpenAI stream loop
OnOpenAIEvent(f, ev, now) ==
    CASE ev.type = "response.refuse.delta" -> f
      [] ev.type = "response.error" -> [f EXCEPT !.error_category = Some("api_error")]
      [] ev.type = "response.output_text.delta" -> AppendText(f, ev.delta, now)
      [] OTHER -> f

\* the events on which the OpenAI loop breaks
OpenAIBreaks(ev) == ev.type \in {"response.error", "response.completed"}

\* response_params is taken from the first chunk that names a model
OnChunkModel(f, ck) ==
    IF TruthyStr(ck.model) /\ IsNone(f.response_params)
    THEN [f EXCEPT !.response_params = Some([model |-> Val(ck.model)])]
    ELSE f

\* usage is read while both counters are still None
OnChunkUsage(f, ck) ==
    IF ~IsNone(ck.usage) /\ IsNone(f.input_tokens) /\ IsNone(f.output_tokens)
    THEN [f EXCEPT !.input_tokens = Val(ck.usage).prompt_tokens,
                   !.output_tokens = Val(ck.usage).completion_tokens]
    ELSE f

\* choices[0].delta.content, or None when any link of the chain is missing
ChunkPiece(ck) ==
    IF ck.choices = <<>> THEN None
    ELSE IF IsNone(ck.choices[1].delta) THEN None
    ELSE Val(ck.choices[1].delta).content

OnChunkText(f, ck, now) ==
    IF TruthyText(ChunkPiece(ck)) THEN AppendText(f, Val(ChunkPiece(ck)), now) ELSE f

\* one chunk of the Anthropic / Grok stream loop
OnChatChunk(f, ck, now) == OnChunkText(OnChunkUsage(OnChunkModel(f, ck), ck), ck, now)

\* one chunk of the Gemini stream loop
OnGeminiChunk(f, ck, now) ==
    IF TruthyText(ck.text) THEN AppendText(f, Val(ck.text), now) ELSE f

OnItem(p, f, item, now) ==
    CASE p = "openai" -> OnOpenAIEvent(f, item, now)
      [] p \in ChatProviders -> OnChatChunk(f, item, now)
      [] OTHER -> OnGeminiChunk(f, item, now)

\* the text fragment a stream item carries, "" when it carries none
ItemFragment(p, item) ==
    CASE p = "openai" ->
           IF item.type = "response.output_text.delta" THEN item.delta ELSE <<>>
      [] p \in ChatProviders ->
           IF IsNone(ChunkPiece(item)) THEN <<>> ELSE Val(ChunkPiece(item))
      [] OTHER -> IF IsNone(item.text) THEN <<>> ELSE Val(item.text)

\* the usage object a stream item carries, if any
ItemUsage(p, item) == IF p \in ChatProviders THEN item.usage ELSE None

Breaks(p, item) == p = "openai" /\ OpenAIBreaks(item)

\* whether the item is the error event of the OpenAI stream
ItemIsError(p, item) == p = "openai" /\ item.type = "response.error"

\* the event types the OpenAI loop tests for
OpenAIEventTypes ==
    {"response.refuse.delta", "response.error", "response.output_text.delta",
     "response.completed"}

\* whether the item is of a kind the loop does not know: an event of another
\* type, a chunk with none of the attributes the loop reads
ItemIsUnknown(p, item) ==
    CASE p = "openai" -> item.type \notin OpenAIEventTypes
      [] p \in ChatProviders ->
           IsNone(item.model) /\ IsNone(item.usage) /\ item.choices = <<>>
      [] OTHER -> IsNone(item.text)

\* last_unknown: whether the item delivered last was of an unknown kind
\* ending: "" while the stream is not over, "end" once the loop has left it
\* (a terminal event or exhaustion), "exception" once it has raised
NothingObserved ==
    [count |-> 0, carried |-> <<>>, first_usage |-> None, error_seen |-> FALSE,
     last_unknown |-> FALSE, ending |-> ""]

\* the record of what the stream delivered, extended by one item
Observe(p, o, item) ==
    [ count |-> o.count + 1,
      carried |-> o.carried \o ItemFragment(p, item),
      first_usage |-> IF IsNone(o.first_usage) THEN ItemUsage(p, item)
                      ELSE o.first_usage,
      error_seen |-> o.error_seen \/ ItemIsError(p, item),
      last_unknown |-> ItemIsUnknown(p, item),
      ending |-> IF Breaks(p, item) THEN "end" ELSE o.ending ]

\* whether handling the item reads perf_counter()
ReadsClock(p, f, item) == OnItem(p, f, item, 0).first_token_time # f.first_token_time

\* the except branch
OnException(p, f, exc) ==
    CASE p = "openai" ->
           [f EXCEPT !.error_category = Some(exc.cls), !.http_status = None,
                     !.text = None]
      [] p \in ChatProviders ->
           [f EXCEPT !.error_category = Some(exc.cls),
                     !.error_message = Some(exc.message), !.text = None,
                     !.http_status = IF ~IsNone(exc.status) THEN exc.status ELSE @]
      [] OTHER -> [f EXCEPT !.error_category = Some(exc.cls)]

\* the end of the try block when nothing was raised
OnStreamEnd(p, f) ==
    [f EXCEPT !.http_status = Some(200),
              !.text = Some(Strip(Join(f.accum_text_parts)))]

\* TtftMs with the start of the call not subtracted
TtftMsFromEpoch(f) ==
    IF TruthyNum(f.first_token_time)
    THEN Some(Val(f.first_token_time) * 1000)
    ELSE None

\* ttft_ms = (first_token_time - start) * 1000 if first_token_time else None
TtftMs(f) ==
    IF TruthyNum(f.first_token_time)
    THEN Some((Val(f.first_token_time) - Val(f.start)) * 1000)
    ELSE None

TotalLatencyMs(f, end) == Some((end - Val(f.start)) * 1000)

InputChars(user_prompt) ==
    IF user_prompt # <<>> THEN Some(Len(user_prompt)) ELSE None

OutputChars(f) == IF TruthyText(f.text) THEN Some(Len(Val(f.text))) ELSE None

\* the statements between the try block and the construction of the result
Measure(f, end, user_prompt) ==
    [f EXCEPT !.end = Some(end), !.ttft_ms = TtftMs(f),
              !.total_latency_ms = TotalLatencyMs(f, end),
              !.input_chars = InputChars(user_prompt),
              !.output_chars = OutputChars(f)]

\* the fields of ProviderResponse
ResponseFields ==
    {"text", "input_tokens", "output_tokens", "input_chars", "output_chars",
     "ttft_ms", "total_latency_ms", "http_status", "error_category",
     "response_params"}

\* the keyword arguments an adapter passes to ProviderResponse(...)
ResponseArgs(p) ==
    IF p \in ChatProviders THEN ResponseFields \cup {"error_message"}
    ELSE ResponseFields \ {"response_params"}

\* ProviderResponse(...) accepts only its own fields
ConstructorAccepts(p) == ResponseArgs(p) \subseteq ResponseFields

\* the ProviderResponse an adapter builds from its measured locals
MakeResponse(p, f) ==
    [ text |-> f.text,
      input_tokens |-> IF p \in ChatProviders THEN f.input_tokens ELSE None,
      output_tokens |-> IF p \in ChatProviders THEN f.output_tokens ELSE None,
      input_chars |-> f.input_chars, output_chars |-> f.output_chars,
      ttft_ms |-> f.ttft_ms, total_latency_ms |-> f.total_latency_ms,
      http_status |-> f.http_status, error_category |-> f.error_category,
      response_params |-> IF p \in ChatProviders THEN f.response_params ELSE None ]

(***************************************************************************)
(* A whole generate call as a function of what the vendor delivers.        *)
(***************************************************************************)
RECURSIVE FoldItems(_, _, _, _)
\* the stream loop over the items, stopping at the item it breaks on
FoldItems(p, f, items, now) ==
    IF items = <<>> THEN [frame |-> f, broke |-> FALSE]
    ELSE IF Breaks(p, Head(items))
         THEN [frame |-> OnItem(p, f, Head(items), now), broke |-> TRUE]
         ELSE FoldItems(p, OnItem(p, f, Head(items), now), Tail(items), now)

\* the try / except / else block: the loop, then the exception the stream
\* ends with unless the loop broke before it, or the normal end
TryBlock(p, f, script, now) ==
    LET r == FoldItems(p, f, script.items, now)
    IN  IF ~r.broke /\ ~IsNone(script.ending)
        THEN OnException(p, r.frame, Val(script.ending))
        ELSE OnStreamEnd(p, r.frame)

\* the last clock reading taken inside the try block
LastReading(f) ==
    IF IsNone(f.first_token_time) THEN Val(f.start) ELSE Val(f.first_token_time)

\* generate(...) run to its end: script is the items the stream delivers and
\* the exception it ends with (None when it is simply exhausted); every clock
\* reading is tick later than the one before
Generate(p, req, script, clk, tick) ==
    IF ~ImageReadable(req)
    THEN [kind |-> "raise", exc |-> "FileNotFoundError", response |-> None,
          clock |-> clk]
    ELSE LET f1 == TryBlock(p, NewFrame(clk + tick), script, clk + tick + tick)
             end == LastReading(f1) + tick
             f2 == Measure(f1, end, req.user_prompt)
         IN  IF ConstructorAccepts(p)
             THEN [kind |-> "response", exc |-> "", response |-> Some(MakeResponse(p, f2)),
                   clock |-> end]
             ELSE [kind |-> "raise", exc |-> "TypeError", response |-> None,
                   clock |-> end]

(***************************************************************************)
(* State of one generate call.                                             *)
(***************************************************************************)
VARIABLES
    provider,              \* provider_name of the adapter
    model_name,            \* self.model_name
    model_configurations,  \* self.model_configurations (the overrides)
    request,               \* the arguments of generate
    kwargs,                \* the parameters of the vendor call, once built
    pc,                    \* idle, request-built, streaming, completed, failed,
                           \* returned, raised
    clock,                 \* the monotonic clock of time.perf_counter(): its
                           \* value when generate is entered, then its last
                           \* reading
    frame,                 \* the local variables of generate
    observed,              \* what the stream has delivered so far: the number
                           \* of items, the text they carried, the first usage,
                           \* whether an error event was among them, how it
                           \* ended
    response,              \* the ProviderResponse returned, if any
    raised,                \* the exception generate let escape, if any
    \* ---- the run of experiment/runner.py ----
    roster,                \* MODEL_SPECS
    env,                   \* the credential variables set in the environment
    args,                  \* the command line: are the prompt ids known, what
                           \* --image names
    inputs,                \* prompt_text, system_text, json_template,
                           \* model_overrides
    tasks,                 \* the images the directory walk yields, in order
    disk,                  \* the content of each model's file on disk
    main_pc,               \* start, loaded, opened, in-task, writing, done,
                           \* aborted, crashed
    task_no,               \* the index in tasks of the current image
    entry,                 \* the index in roster run_task has reached
    model_rows,            \* run_task's dict, in insertion order
    write_no,              \* how many items of the result main has written
    calls,                 \* the generate calls made so far: task and entry
    crash                  \* the exception that ended the process, if any

VARIABLES
    \* ---- the line-delimited log of experiment/utils/logger.py ----
    log_before,            \* the content of the file at self.path when the
                           \* logger is constructed, None when it is absent
    log_file,              \* the content of that file now
    log_handle,            \* the text written to the open handle f and not yet
                           \* passed to the file, None when no handle is open
    call_log,              \* the records of the write in progress, if any
    log_records            \* the records of the writes that have returned

VARIABLES
    \* ---- get_all_experiment_folders of run_mls_experiments.py ----
    data_dir,              \* what data_dir.iterdir() yields, in its order;
                           \* None when data_dir does not exist
    start_from,            \* the argument start_from
    scan_pos,              \* how many items of data_dir the loop has taken
    experiment_folders,    \* the list experiment_folders
    scan_pc                \* scanning, returned, raised

VARIABLES
    \* ---- the stream loop of one adapter run twice on the same stream ----
    replay_provider,       \* the adapter whose loop is run
    first_run,             \* the locals and the clock of the first run
    second_run,            \* the locals and the clock of the second run
    replay_count,          \* how many items both runs have taken
    replay_pc              \* streaming, completed, failed

VARIABLES
    \* ---- run_mls_experiments of run_mls_experiments.py ----
    num_runs,              \* the argument num_runs
    current_experiment,    \* the counter current_experiment, None while unbound
    mls_error,             \* the exception that left run_mls_experiments
    mls_pc                 \* scanning, returned, raised

gvars == << provider, model_name, model_configurations, request, kwargs, pc, clock,
            frame, observed, response, raised >>

rvars == << roster, env, args, inputs, tasks, disk, main_pc, task_no, entry,
            model_rows, write_no, calls, crash >>

lvars == << log_before, log_file, log_handle, call_log, log_records >>

svars == << data_dir, start_from, scan_pos, experiment_folders, scan_pc >>

pvars == << replay_provider, first_run, second_run, replay_count, replay_pc >>

\* the variables outside the adapter call and the run of main
mvars == << num_runs, current_experiment, mls_error, mls_pc >>

ovars == << lvars, svars, pvars, mvars >>

vars == << gvars, rvars, ovars >>

\* no logger is in use
NoLogging ==
    /\ log_before = None
    /\ log_file = None
    /\ log_handle = None
    /\ call_log = None
    /\ log_records = <<>>

\* get_all_experiment_folders has not been called
NoScan ==
    /\ data_dir = None
    /\ start_from = 0
    /\ scan_pos = 0
    /\ experiment_folders = <<>>
    /\ scan_pc = ""

\* no stream is being run twice
NoReplay ==
    /\ replay_provider = ""
    /\ first_run = [frame |-> BlankFrame, clock |-> 1]
    /\ second_run = [frame |-> BlankFrame, clock |-> 1]
    /\ replay_count = 0
    /\ replay_pc = ""

\* nothing but the adapter call or the run of main is in progress
\* run_mls_experiments has not been called
NoMls ==
    /\ num_runs = 0
    /\ current_experiment = None
    /\ mls_error = None
    /\ mls_pc = ""

RestIdle == NoLogging /\ NoScan /\ NoReplay /\ NoMls

\* no run of main is in progress: a single generate call is observed
NoRun ==
    /\ roster = <<>>
    /\ env = {}
    /\ args = [prompt_known |-> TRUE, image |-> "dir"]
    /\ inputs = [prompt_text |-> <<>>, system_text |-> None, json_template |-> None,
                 model_overrides |-> EmptyDict]
    /\ tasks = <<>>
    /\ disk = EmptyDict
    /\ main_pc = "start"
    /\ task_no = 0
    /\ entry = 0
    /\ model_rows = <<>>
    /\ write_no = 0
    /\ calls = <<>>
    /\ crash = None

\* no adapter has been created and no generate call made
NoGenerate ==
    /\ provider = ""
    /\ model_name = ""
    /\ model_configurations = EmptyDict
    /\ request = [system_prompt |-> <<>>, user_prompt |-> <<>>, image_path |-> None,
                  json_schema |-> None]
    /\ kwargs = EmptyDict
    /\ pc = "idle"
    /\ clock = 1
    /\ frame = BlankFrame
    /\ observed = NothingObserved
    /\ response = None
    /\ raised = None

\* perf_counter() is positive and never goes backwards
Readings == { clock + d : d \in 0..MaxTick }

GenInit ==
    /\ \E a \in AdapterSpecs : provider = a[1] /\ model_name = a[2]
    /\ \E c \in CallInputs :
         /\ request = c.request
         /\ model_configurations = c.overrides
    /\ kwargs = EmptyDict
    /\ pc = "idle"
    /\ clock = 1
    /\ frame = BlankFrame
    /\ observed = NothingObserved
    /\ response = None
    /\ raised = None
    /\ NoRun
    /\ RestIdle

\* the image is read and encoded, the request is built, the clock is started
BuildRequest ==
    /\ UNCHANGED << rvars, ovars >>
    /\ pc = "idle"
    /\ ImageReadable(request)
    /\ kwargs' = BuildKwargs(provider, model_name, request, model_configurations)
    /\ \E now \in Readings :
         /\ clock' = now
         /\ frame' = NewFrame(now)
    /\ pc' = "request-built"
    /\ UNCHANGED << provider, model_name, model_configurations, request, observed,
                    response, raised >>

\* read_bytes() fails: the image is encoded outside the try block
BuildRequestRaises ==
    /\ UNCHANGED << rvars, ovars >>
    /\ pc = "idle"
    /\ ~ImageReadable(request)
    /\ raised' = Some("FileNotFoundError")
    /\ pc' = "raised"
    /\ UNCHANGED << provider, model_name, model_configurations, request, kwargs,
                    clock, frame, observed, response >>

\* the streaming call is made
OpenStream ==
    /\ UNCHANGED << rvars, ovars >>
    /\ pc = "request-built"
    /\ pc' = "streaming"
    /\ UNCHANGED << provider, model_name, model_configurations, request, kwargs,
                    clock, frame, observed, response, raised >>

\* the loop takes the next stream item
StreamItem ==
    /\ UNCHANGED << rvars, ovars >>
    /\ pc = "streaming"
    /\ observed.count < MaxEvents
    /\ \E item \in StreamItems(provider), now \in Readings :
         /\ frame' = IF Breaks(provider, item)
                     THEN OnStreamEnd(provider, OnItem(provider, frame, item, now))
                     ELSE OnItem(provider, frame, item, now)
         /\ clock' = IF ReadsClock(provider, frame, item) THEN now ELSE clock
         /\ observed' = Observe(provider, observed, item)
         /\ pc' = IF Breaks(provider, item) THEN "completed" ELSE "streaming"
    /\ UNCHANGED << provider, model_name, model_configurations, request, kwargs,
                    response, raised >>

\* the stream is exhausted
StreamExhausted ==
    /\ UNCHANGED << rvars, ovars >>
    /\ pc = "streaming"
    /\ frame' = OnStreamEnd(provider, frame)
    /\ observed' = [observed EXCEPT !.ending = "end"]
    /\ pc' = "completed"
    /\ UNCHANGED << provider, model_name, model_configurations, request, kwargs,
                    clock, response, raised >>

\* StreamRaises with the call started again after the exception
StreamRaisesAndRetries ==
    /\ UNCHANGED << rvars, ovars >>
    /\ pc = "streaming"
    /\ \E exc \in Exceptions : frame' = OnException(provider, frame, exc)
    /\ observed' = [observed EXCEPT !.ending = "exception"]
    /\ pc' = IF observed.ending = "" THEN "request-built" ELSE "failed"
    /\ UNCHANGED << provider, model_name, model_configurations, request, kwargs,
                    clock, response, raised >>

\* the streaming call or the fetching of the next item raises
StreamRaises ==
    /\ UNCHANGED << rvars, ovars >>
    /\ pc = "streaming"
    /\ \E exc \in Exceptions : frame' = OnException(provider, frame, exc)
    /\ observed' = [observed EXCEPT !.ending = "exception"]
    /\ pc' = "failed"
    /\ UNCHANGED << provider, model_name, model_configurations, request, kwargs,
                    clock, response, raised >>

\* the clock is stopped, the counts are measured and the result is built
Return ==
    /\ UNCHANGED << rvars, ovars >>
    /\ pc \in {"completed", "failed"}
    /\ \E now \in Readings :
         /\ clock' = now
         /\ frame' = Measure(frame, now, request.user_prompt)
         /\ IF ConstructorAccepts(provider)
            THEN /\ response' = Some(MakeResponse(provider, frame'))
                 /\ raised' = None
                 /\ pc' = "returned"
            ELSE /\ response' = None
                 /\ raised' = Some("TypeError")
                 /\ pc' = "raised"
    /\ UNCHANGED << provider, model_name, model_configurations, request, kwargs,
                    observed >>

GenNext ==
    \/ BuildRequest
    \/ BuildRequestRaises
    \/ OpenStream
    \/ StreamItem
    \/ StreamExhausted
    \/ StreamRaises
    \/ Return

SpecGenerate == GenInit /\ [][GenNext]_vars

(***************************************************************************)
(* The orchestrator and the tabular sink: experiment/runner.py.            *)
(***************************************************************************)
\* most images the directory walk of one run yields
MaxTasks == 2

MODEL_SPECS ==
    << <<"openai", "gpt-4.1">>,
       <<"openai", "gpt-4o">>,
       <<"openai", "o1">>,
       <<"openai", "gpt-5">>,
       <<"openai", "gpt-5-chat-latest">>,
       <<"anthropic", "claude-opus-4-1-20250805">>,
       <<"anthropic", "claude-opus-4-20250514">>,
       <<"anthropic", "claude-3-7-sonnet-latest">>,
       <<"anthropic", "claude-sonnet-4-20250514">>,
       <<"grok", "grok-4-fast-reasoning">> >>

\* a roster of the adapters whose generate is an ordinary function: the
\* first entry of MODEL_SPECS and the entry the source keeps commented out
SyncRoster == << <<"openai", "gpt-4.1">>, <<"gemini", "gemini-2.5-pro">> >>

Rosters == { MODEL_SPECS, SyncRoster }

ModelNames(r) == { r[k][2] : k \in DOMAIN r }

AllKeys == {"OPENAI_API_KEY", "ANTHROPIC_API_KEY", "GROK_API_KEY", "GOOGLE_API_KEY"}

Environments ==
    { AllKeys, AllKeys \ {"OPENAI_API_KEY"}, AllKeys \ {"GOOGLE_API_KEY"},
      AllKeys \ {"ANTHROPIC_API_KEY"} }

\* the environment variables an adapter's constructor reads its API key from
RequiredKeys(p) ==
    CASE p = "openai" -> {"OPENAI_API_KEY"}
      [] p = "anthropic" -> {"ANTHROPIC_API_KEY"}
      [] p = "grok" -> {"GROK_API_KEY"}
      [] p = "gemini" -> {"GOOGLE_API_KEY", "GEMINI_API_KEY"}
      [] OTHER -> {}

\* whether the adapter's constructor finds an API key for its client: the
\* OpenAI-SDK clients fall back on OPENAI_API_KEY when given api_key=None
ClientConstructs(p, e) ==
    CASE p = "openai" -> "OPENAI_API_KEY" \in e
      [] p = "anthropic" -> {"ANTHROPIC_API_KEY", "OPENAI_API_KEY"} \cap e # {}
      [] p = "grok" -> {"GROK_API_KEY", "OPENAI_API_KEY"} \cap e # {}
      [] p = "gemini" -> {"GOOGLE_API_KEY", "GEMINI_API_KEY"} \cap e # {}
      [] OTHER -> FALSE

\* create_provider: the exception it raises, None when it returns an adapter
CreateProvider(p, e) ==
    IF p \notin Providers THEN Some("ValueError")
    ELSE IF ~ClientConstructs(p, e) THEN Some("OpenAIError")
    ELSE None

CommandLines ==
    { [prompt_known |-> TRUE, image |-> "dir"],
      [prompt_known |-> FALSE, image |-> "dir"],
      [prompt_known |-> TRUE, image |-> "file"],
      [prompt_known |-> TRUE, image |-> "absent"] }

RunInputs ==
    { [prompt_text |-> <<"h", "i">>, system_text |-> Some(<<"s">>),
       json_template |-> None, model_overrides |-> EmptyDict],
      [prompt_text |-> <<"h", "i">>, system_text |-> None,
       json_template |-> Schema, model_overrides |-> [temperature |-> "0.2"]] }

\* the images of a run, in the order of the walk: for each, whether its
\* bytes can be read
TaskLists == UNION { [1..n -> BOOLEAN] : n \in 0..MaxTasks }

burst_column ==
    << "StudyInstanceUID", "slice_number", "response_text", "input_tokens",
       "output_tokens", "input_chars", "output_chars", "ttft_ms",
       "total_latency_ms", "http_status", "error_category", "response_params" >>

\* a file left by an earlier run of the same experiment id
OldFile ==
    Some(<< burst_column,
            [c \in DOMAIN burst_column |->
                IF burst_column[c] = "slice_number" THEN 0 ELSE "earlier run"] >>)

\* the streams a vendor answers one call of a run with
RunScripts(p) ==
    CASE p = "openai" ->
           { [items |-> << [type |-> "response.output_text.delta", delta |-> <<"a">>] >>,
              ending |-> None],
             [items |-> << [type |-> "response.error", delta |-> <<>>] >>,
              ending |-> None],
             [items |-> <<>>,
              ending |-> Some([cls |-> "APITimeoutError",
                               message |-> "Request timed out.", status |-> None])] }
      [] p = "gemini" ->
           { [items |-> << [text |-> Some(<<"a">>)] >>, ending |-> None],
             [items |-> <<>>,
              ending |-> Some([cls |-> "APITimeoutError",
                               message |-> "Request timed out.", status |-> None])] }
      [] OTHER -> { [items |-> <<>>, ending |-> None] }

\* applied_config = model_overrides or {}
AppliedConfig(i) == i.model_overrides

\* the arguments run_task passes to generate for image k
TaskRequest(i, ts, k) ==
    [ system_prompt |-> IF TruthyText(i.system_text) THEN Val(i.system_text) ELSE <<>>,
      user_prompt |-> i.prompt_text,
      image_path |-> Some([suffix |-> ".png", readable |-> ts[k]]),
      json_schema |-> i.json_template ]

\* provider.generate(...) as run_task calls it, without await: the generate of
\* the Anthropic and Grok adapters is a coroutine function, so the call only
\* creates a coroutine object and runs none of its body
GenerateCall(p, req, script, clk) ==
    IF p \in ChatProviders
    THEN [kind |-> "coroutine", exc |-> "", response |-> None, clock |-> clk]
    ELSE Generate(p, req, script, clk, 1)

\* json.dumps(response.response_params) if response.response_params else None
DumpParams(o) ==
    IF ~IsNone(o) /\ DOMAIN Val(o) # {} THEN Some([json |-> Val(o)]) ELSE None

\* the row run_task builds from a response
Row(r, study_uid, slice_number) ==
    [ StudyInstanceUID |-> study_uid, slice_number |-> slice_number,
      response_text |-> r.text, input_tokens |-> r.input_tokens,
      output_tokens |-> r.output_tokens, input_chars |-> r.input_chars,
      output_chars |-> r.output_chars, ttft_ms |-> r.ttft_ms,
      total_latency_ms |-> r.total_latency_ms, http_status |-> r.http_status,
      error_category |-> r.error_category,
      response_params |-> DumpParams(r.response_params) ]

\* AddRow with a new model's rows put in front of those of the models before
AddRowInFront(mr, name, row) ==
    IF \E k \in DOMAIN mr : mr[k].model = name
    THEN [k \in DOMAIN mr |->
            IF mr[k].model = name THEN [mr[k] EXCEPT !.rows = Append(@, row)]
            ELSE mr[k]]
    ELSE << [model |-> name, rows |-> << row >>] >> \o mr

\* model_rows.setdefault(model_name, []).append(row)
AddRow(mr, name, row) ==
    IF \E k \in DOMAIN mr : mr[k].model = name
    THEN [k \in DOMAIN mr |->
            IF mr[k].model = name THEN [mr[k] EXCEPT !.rows = Append(@, row)]
            ELSE mr[k]]
    ELSE Append(mr, [model |-> name, rows |-> << row >>])

\* csv.DictWriter.writerow: the values of the row in the order of the header
CsvLine(row) == [c \in DOMAIN burst_column |-> row[burst_column[c]]]

RECURSIVE CsvLines(_)
CsvLines(rows) ==
    IF rows = <<>> THEN <<>> ELSE << CsvLine(Head(rows)) >> \o CsvLines(Tail(rows))

\* writerows on a line-buffered file followed by flush: the lines are on disk
WriteRows(d, name, rows) ==
    [d EXCEPT ![name] = Some(Val(@) \o CsvLines(rows))]

\* OpenFiles with the files opened in append mode: what an earlier run left
\* is kept and the header is added after it
OpenFilesAppending(d, r) ==
    [m \in DOMAIN d |->
        IF m \in ModelNames(r)
        THEN Some((IF IsNone(d[m]) THEN <<>> ELSE Val(d[m])) \o << burst_column >>)
        ELSE d[m]]

\* open(csv_path, "w") and writeheader for every model of the roster
OpenFiles(d, r) ==
    [m \in DOMAIN d |-> IF m \in ModelNames(r) THEN Some(<< burst_column >>) ELSE d[m]]

RunInit ==
    /\ roster \in Rosters
    /\ env \in Environments
    /\ args \in CommandLines
    /\ inputs \in RunInputs
    /\ tasks \in TaskLists
    /\ disk \in { [m \in ModelNames(roster) |-> None],
                  [m \in ModelNames(roster) |-> OldFile] }
    /\ main_pc = "start"
    /\ task_no = 0
    /\ entry = 0
    /\ model_rows = <<>>
    /\ write_no = 0
    /\ calls = <<>>
    /\ crash = None
    /\ NoGenerate
    /\ RestIdle

\* what a run leaves alone in the variables of the single-call view
CallUntouched == UNCHANGED << kwargs, pc, frame, observed >>
NoCall == UNCHANGED gvars
RunFixed == UNCHANGED << roster, env, args, inputs, tasks, ovars >>

\* main: the prompt and system texts are looked up, Path(args.image) is built
LoadInputs ==
    /\ main_pc = "start"
    /\ args.prompt_known
    /\ args.image # "absent"
    /\ main_pc' = "loaded"
    /\ NoCall /\ RunFixed
    /\ UNCHANGED << disk, task_no, entry, model_rows, write_no, calls, crash >>

\* main: an unknown prompt id or version is a KeyError, a missing --image a
\* TypeError of Path(None); both before any file is opened
LoadInputsFails ==
    /\ main_pc = "start"
    /\ ~(args.prompt_known /\ args.image # "absent")
    /\ crash' = IF ~args.prompt_known THEN Some("KeyError") ELSE Some("TypeError")
    /\ main_pc' = "aborted"
    /\ NoCall /\ RunFixed
    /\ UNCHANGED << disk, task_no, entry, model_rows, write_no, calls >>

\* main: one file per model is opened for writing and given its header
OpenOutputFiles ==
    /\ main_pc = "loaded"
    /\ disk' = OpenFiles(disk, roster)
    /\ main_pc' = "opened"
    /\ NoCall /\ RunFixed
    /\ UNCHANGED << task_no, entry, model_rows, write_no, calls, crash >>

\* main: the image path is no directory
NotADirectory ==
    /\ main_pc = "opened"
    /\ args.image # "dir"
    /\ crash' = Some("ValueError")
    /\ main_pc' = "aborted"
    /\ NoCall /\ RunFixed
    /\ UNCHANGED << disk, task_no, entry, model_rows, write_no, calls >>

\* main: the walk yields the next image and run_task is entered
StartTask ==
    /\ main_pc = "opened"
    /\ args.image = "dir"
    /\ task_no < Len(tasks)
    /\ task_no' = task_no + 1
    /\ entry' = 1
    /\ model_rows' = <<>>
    /\ write_no' = 0
    /\ main_pc' = "in-task"
    /\ NoCall /\ RunFixed
    /\ UNCHANGED << disk, calls, crash >>

\* run_task: create_provider raises for the next roster entry
CreateProviderRaises ==
    /\ main_pc = "in-task"
    /\ entry <= Len(roster)
    /\ ~IsNone(CreateProvider(roster[entry][1], env))
    /\ crash' = CreateProvider(roster[entry][1], env)
    /\ main_pc' = "crashed"
    /\ NoCall /\ RunFixed
    /\ UNCHANGED << disk, task_no, entry, model_rows, write_no, calls >>

\* the dict objects of one pass of the run_task loop: the two of the caller,
\* the dict the ** of the adapter's constructor collects the overrides into,
\* and the parameter dict generate builds (none yet)
ObjectsAtCall(i) ==
    [ json_template |-> i.json_template,
      applied_config |-> AppliedConfig(i),
      model_configurations |-> [k \in DOMAIN AppliedConfig(i) |-> AppliedConfig(i)[k]],
      params |-> EmptyDict ]

\* StoreParams with the merged parameters written into the dict of the caller
StoreParamsInCallerConfig(objects, kw) == [objects EXCEPT !.applied_config = kw]

\* generate binds the parameters it has built and merged to its own local
StoreParams(objects, kw) == [objects EXCEPT !.params = kw]

\* the objects after create_provider and generate: generate builds its
\* parameters once the image has been read; the body of a coroutine function
\* is not run at all
CallObjects(p, model, req, i) ==
    IF p \in ChatProviders \/ ~ImageReadable(req)
    THEN ObjectsAtCall(i)
    ELSE StoreParams(ObjectsAtCall(i),
                     OverridableParams(p, BuildKwargs(p, model, req,
                                          ObjectsAtCall(i).model_configurations)))

\* the inputs main holds, read back from the objects after a call; an empty
\* model_overrides is not the object run_task passes on (model_overrides or {})
InputsAfterCall(i, objects) ==
    [i EXCEPT !.json_template = objects.json_template,
              !.model_overrides = IF DOMAIN @ # {} THEN objects.applied_config ELSE @]

\* run_task: one pass of the loop over the roster: the adapter is created,
\* generate is called and the row is built and stored; an exception of any of
\* these steps leaves run_task and main
CallModel ==
    /\ main_pc = "in-task"
    /\ entry <= Len(roster)
    /\ IsNone(CreateProvider(roster[entry][1], env))
    /\ \E script \in RunScripts(roster[entry][1]) :
         LET p == roster[entry][1]
             name == roster[entry][2]
             req == TaskRequest(inputs, tasks, task_no)
             out == GenerateCall(p, req, script, clock)
         IN  /\ provider' = p
             /\ model_name' = name
             /\ model_configurations' = AppliedConfig(inputs)
             /\ request' = req
             /\ clock' = out.clock
             /\ response' = out.response
             /\ raised' = IF out.kind = "raise" THEN Some(out.exc) ELSE None
             /\ calls' = Append(calls, [task |-> task_no, entry |-> entry])
             /\ inputs' = InputsAfterCall(inputs, CallObjects(p, name, req, inputs))
             /\ IF out.kind = "response"
                THEN /\ model_rows' = AddRow(model_rows, name,
                                             Row(Val(out.response), "study", task_no))
                     /\ entry' = entry + 1
                     /\ UNCHANGED << main_pc, crash >>
                ELSE /\ crash' = IF out.kind = "coroutine" THEN Some("AttributeError")
                                 ELSE Some(out.exc)
                     /\ main_pc' = "crashed"
                     /\ UNCHANGED << model_rows, entry >>
    /\ CallUntouched
    /\ UNCHANGED << roster, env, args, tasks, ovars >>
    /\ UNCHANGED << disk, task_no, write_no >>

\* run_task returns model_rows to main
TaskReturns ==
    /\ main_pc = "in-task"
    /\ entry > Len(roster)
    /\ write_no' = 0
    /\ main_pc' = "writing"
    /\ NoCall /\ RunFixed
    /\ UNCHANGED << disk, task_no, entry, model_rows, calls, crash >>

\* main: the rows of the next model of the result are written and flushed
WriteModelRows ==
    /\ main_pc = "writing"
    /\ write_no < Len(model_rows)
    /\ disk' = WriteRows(disk, model_rows[write_no + 1].model,
                         model_rows[write_no + 1].rows)
    /\ write_no' = write_no + 1
    /\ main_pc' = IF write_no + 1 = Len(model_rows) THEN "opened" ELSE "writing"
    /\ NoCall /\ RunFixed
    /\ UNCHANGED << task_no, entry, model_rows, calls, crash >>

\* main: the walk is over and the files are closed
CloseFiles ==
    /\ main_pc = "opened"
    /\ args.image = "dir"
    /\ task_no = Len(tasks)
    /\ main_pc' = "done"
    /\ NoCall /\ RunFixed
    /\ UNCHANGED << disk, task_no, entry, model_rows, write_no, calls, crash >>

RunNext ==
    \/ LoadInputs
    \/ LoadInputsFails
    \/ OpenOutputFiles
    \/ NotADirectory
    \/ StartTask
    \/ CreateProviderRaises
    \/ CallModel
    \/ TaskReturns
    \/ WriteModelRows
    \/ CloseFiles

SpecRun == RunInit /\ [][RunNext]_vars

(***************************************************************************)
(* The line-delimited log: JsonlLogger.write of experiment/utils/logger.py *)
(* and write_jsonl of experiment/utils/io.py.  A file is the sequence of   *)
(* the characters and tokens written to it.                                *)
(***************************************************************************)
\* most records written to the log in one run
MaxWrites == 3

\* the fields of CallLog in the order of the dataclass, which asdict keeps
CallLogFields ==
    << "prompt_id", "input_image_path", "user_prompt", "model_provider",
       "model_name", "model_configurations", "input_chars", "input_tokens",
       "output_chars", "output_tokens", "ttft_ms", "total_latency_ms",
       "response_text", "retry_count", "http_status", "error_category",
       "experiment_id", "extra" >>

\* the fields that hold a text, here a sequence of characters
TextFields == {"user_prompt", "response_text"}
\* the fields that hold a number
NumberFields ==
    {"input_chars", "input_tokens", "output_chars", "output_tokens", "ttft_ms",
     "total_latency_ms", "retry_count", "http_status"}
\* the fields that hold a mapping
DictFields == {"model_configurations", "extra"}

SuccessLog ==
    [ prompt_id |-> Some("p1"), input_image_path |-> None,
      user_prompt |-> Some(<<"h", "i">>), model_provider |-> Some("openai"),
      model_name |-> Some("gpt-4.1"), model_configurations |-> Some(EmptyDict),
      input_chars |-> Some(2), input_tokens |-> None, output_chars |-> Some(1),
      output_tokens |-> None, ttft_ms |-> Some(1000),
      total_latency_ms |-> Some(2000), response_text |-> Some(<<"a">>),
      retry_count |-> Some(0), http_status |-> Some(200),
      error_category |-> None, experiment_id |-> None, extra |-> None ]

\* CallLog instances: a plain one, one whose text holds a line break, one whose
\* text holds a quote, a backslash and a non-ASCII letter, and a failure
CallLogs ==
    { SuccessLog,
      [SuccessLog EXCEPT !.response_text = Some(<<"a", "\n", "b">>),
                         !.output_chars = Some(3)],
      [SuccessLog EXCEPT !.response_text = Some(<<"\"", "\\", "é">>),
                         !.output_chars = Some(3),
                         !.model_configurations = Some([temperature |-> "0.2"])],
      [SuccessLog EXCEPT !.response_text = None, !.output_chars = None,
                         !.ttft_ms = None, !.http_status = None,
                         !.error_category = Some("APITimeoutError")] }

\* call_log.to_dict()
ToDict(log) == log

\* json.dumps of one character of a string with ensure_ascii=False: the quote,
\* the backslash and the control characters are escaped, nothing else
JsonChar(c) ==
    CASE c = "\"" -> << "\\", "\"" >>
      [] c = "\\" -> << "\\", "\\" >>
      [] c = "\n" -> << "\\", "n" >>
      [] OTHER -> << c >>

RECURSIVE JsonChars(_)
JsonChars(t) == IF t = <<>> THEN <<>> ELSE JsonChar(Head(t)) \o JsonChars(Tail(t))

\* json.dumps of a str
JsonText(t) == << "\"" >> \o JsonChars(t) \o << "\"" >>

\* json.dumps of a mapping of option names to values, in key order
RECURSIVE JsonDict(_)
JsonDict(d) ==
    IF DOMAIN d = {} THEN << "{", "}" >>
    ELSE LET k == CHOOSE k \in DOMAIN d : TRUE
             rest == [j \in (DOMAIN d) \ {k} |-> d[j]]
         IN  << "{", "\"", k, "\"", ": ", d[k] >>
             \o (IF DOMAIN rest = {} THEN << "}" >>
                 ELSE << ", " >> \o Tail(JsonDict(rest)))

\* json.dumps of the value of one field
JsonValue(field, o) ==
    IF IsNone(o) THEN << "null" >>
    ELSE IF field \in TextFields THEN JsonText(Val(o))
    ELSE IF field \in NumberFields THEN << ToString(Val(o)) >>
    ELSE IF field \in DictFields THEN JsonDict(Val(o))
    ELSE << "\"", Val(o), "\"" >>

RECURSIVE JsonMembers(_, _)
JsonMembers(payload, fields) ==
    IF fields = <<>> THEN <<>>
    ELSE << "\"", Head(fields), "\"", ": " >>
         \o JsonValue(Head(fields), payload[Head(fields)])
         \o (IF Tail(fields) = <<>> THEN <<>> ELSE << ", " >>)
         \o JsonMembers(payload, Tail(fields))

\* json.dumps(payload, ensure_ascii=False)
JsonDumps(payload) == << "{" >> \o JsonMembers(payload, CallLogFields) \o << "}" >>

\* the text of one f.write call
LogLine(payload) == JsonDumps(payload) \o << "\n" >>

\* files found at the log path: none, an empty one, one holding a record
LogFilesBefore == { None, Some(<<>>), Some(LogLine(ToDict(SuccessLog))) }

\* the record lists write_jsonl is called with
RecordLists ==
    { <<>> } \cup { << ToDict(l) >> : l \in CallLogs }
    \cup { << ToDict(SuccessLog), ToDict(l) >> : l \in CallLogs }

\* open(path, 'w'): the file is created or emptied
OpenTruncating(file) == Some(<<>>)

\* open(path, 'a'): the file is created if absent and otherwise left as it is
OpenAppending(file) == IF IsNone(file) THEN Some(<<>>) ELSE file

LogInit ==
    /\ log_before \in LogFilesBefore
    /\ log_file = log_before
    /\ log_handle = None
    /\ call_log = None
    /\ log_records = <<>>
    /\ NoGenerate
    /\ NoRun
    /\ NoScan
    /\ NoReplay
    /\ NoMls

LogFixed == UNCHANGED << gvars, rvars, svars, pvars, mvars, log_before >>

\* JsonlLogger.write: the payload is built and the file is opened for append
WriteOpens ==
    /\ IsNone(log_handle)
    /\ Len(log_records) < MaxWrites
    /\ \E log \in CallLogs : call_log' = Some(<< ToDict(log) >>)
    /\ log_file' = OpenAppending(log_file)
    /\ log_handle' = Some(<<>>)
    /\ UNCHANGED log_records
    /\ LogFixed

\* write_jsonl: the file is opened for append
WriteJsonlOpens ==
    /\ IsNone(log_handle)
    /\ \E recs \in RecordLists :
         /\ Len(log_records) + Len(recs) <= MaxWrites
         /\ call_log' = Some(recs)
    /\ log_file' = OpenAppending(log_file)
    /\ log_handle' = Some(<<>>)
    /\ UNCHANGED log_records
    /\ LogFixed

\* f.write(json.dumps(...) + "\n"): the line goes to the buffer of the handle
WriteLine ==
    /\ ~IsNone(log_handle)
    /\ Val(call_log) # <<>>
    /\ log_handle' = Some(Val(log_handle) \o LogLine(Head(Val(call_log))))
    /\ call_log' = Some(Tail(Val(call_log)))
    /\ log_records' = Append(log_records, Head(Val(call_log)))
    /\ UNCHANGED log_file
    /\ LogFixed

\* the buffer of the handle fills up and is passed to the file
BufferSpills ==
    /\ ~IsNone(log_handle)
    /\ Val(log_handle) # <<>>
    /\ log_file' = Some(Val(log_file) \o Val(log_handle))
    /\ log_handle' = Some(<<>>)
    /\ UNCHANGED << call_log, log_records >>
    /\ LogFixed

\* the with block is left: the handle is flushed and closed and the call
\* returns
WriteCloses ==
    /\ ~IsNone(log_handle)
    /\ Val(call_log) = <<>>
    /\ log_file' = Some(Val(log_file) \o Val(log_handle))
    /\ log_handle' = None
    /\ call_log' = None
    /\ UNCHANGED log_records
    /\ LogFixed

LogNext ==
    \/ WriteOpens
    \/ WriteJsonlOpens
    \/ WriteLine
    \/ BufferSpills
    \/ WriteCloses

SpecLogger == LogInit /\ [][LogNext]_vars

(***************************************************************************)
(* The directory scan of run_mls_experiments.py: find_image_in_folder and  *)
(* get_all_experiment_folders.  A name is a sequence of characters.        *)
(***************************************************************************)
\* most items data_dir holds
MaxEntries == 3

DecimalDigits == {"0", "1", "2", "3", "4", "5", "6", "7", "8", "9"}

\* str.isdigit() of one character: the decimal digits and the other
\* characters of Unicode with the Digit property, such as superscript two
IsDigitChar(c) == c \in DecimalDigits \cup {"²"}

\* name.isdigit(): not empty and made of such characters only
IsDigit(name) ==
    /\ name # <<>>
    /\ \A i \in DOMAIN name : IsDigitChar(name[i])

DigitValue(c) ==
    CASE c = "0" -> 0 [] c = "1" -> 1 [] c = "2" -> 2 [] c = "3" -> 3
      [] c = "4" -> 4 [] c = "5" -> 5 [] c = "6" -> 6 [] c = "7" -> 7
      [] c = "8" -> 8 [] OTHER -> 9

RECURSIVE DecimalValue(_)
DecimalValue(name) ==
    IF name = <<>> THEN 0
    ELSE 10 * DecimalValue(SubSeq(name, 1, Len(name) - 1))
         + DigitValue(name[Len(name)])

\* int(name): the value of a decimal numeral; None stands for the ValueError
\* int raises on any other text, a superscript digit included
IntOf(name) ==
    IF name # <<>> /\ \A i \in DOMAIN name : name[i] \in DecimalDigits
    THEN Some(DecimalValue(name))
    ELSE None

ImageExtensions == {".png", ".jpg", ".jpeg", ".bmp", ".tiff", ".tif"}

\* find_image_in_folder: the first file of the folder with an image
\* extension, None when there is none
RECURSIVE FindImageInFolder(_)
FindImageInFolder(children) ==
    IF children = <<>> THEN None
    ELSE IF Head(children).is_file /\ Lower(Head(children).suffix) \in ImageExtensions
         THEN Some(Head(children))
         ELSE FindImageInFolder(Tail(children))

\* the content of a folder: some with an image file, some with none (a file
\* of another type and a directory named like an image)
FolderWithImage ==
    << [name |-> "notes", suffix |-> ".txt", is_file |-> TRUE],
       [name |-> "scan", suffix |-> ".PNG", is_file |-> TRUE] >>
FolderWithoutImage ==
    << [name |-> "scan", suffix |-> ".webp", is_file |-> TRUE],
       [name |-> "old", suffix |-> ".png", is_file |-> FALSE] >>

ItemNames == { <<"7">>, <<"1", "0">>, <<"0", "7">>, <<"a">>, <<"²">> }

\* the items a data directory can hold: folders and plain files
DirItems ==
    [ name : ItemNames, is_dir : {TRUE},
      children : {FolderWithImage, FolderWithoutImage} ]
    \cup [ name : ItemNames, is_dir : {FALSE}, children : { <<>> } ]

\* the listings of a directory: items of different names, in any order
Listings ==
    UNION { { l \in [1..n -> DirItems] :
                \A i, j \in 1..n : i # j => l[i].name # l[j].name } :
            n \in 0..MaxEntries }

\* the key of the final sort; it is applied to names that passed isdigit()
SortKey(item) == Val(IntOf(item.name))

RECURSIVE InsertSorted(_, _)
\* item put behind the last element whose key is not larger
InsertSorted(sorted, item) ==
    IF sorted = <<>> THEN << item >>
    ELSE IF SortKey(sorted[Len(sorted)]) <= SortKey(item) THEN Append(sorted, item)
    ELSE Append(InsertSorted(SubSeq(sorted, 1, Len(sorted) - 1), item),
                sorted[Len(sorted)])

RECURSIVE Sorted(_)
\* sorted(experiment_folders, key=...): ascending and stable
Sorted(items) ==
    IF items = <<>> THEN <<>>
    ELSE InsertSorted(Sorted(SubSeq(items, 1, Len(items) - 1)), items[Len(items)])

ScanInit ==
    /\ data_dir \in {None} \cup { Some(l) : l \in Listings }
    /\ start_from \in {0, 8}
    /\ scan_pos = 0
    /\ experiment_folders = <<>>
    /\ scan_pc = "scanning"
    /\ NoGenerate
    /\ NoRun
    /\ NoLogging
    /\ NoReplay
    /\ NoMls

ScanFixed ==
    UNCHANGED << gvars, rvars, lvars, pvars, mvars, data_dir, start_from >>

\* data_dir does not exist: the empty list is returned
DirMissing ==
    /\ scan_pc = "scanning"
    /\ IsNone(data_dir)
    /\ scan_pc' = "returned"
    /\ UNCHANGED << scan_pos, experiment_folders >>
    /\ ScanFixed

\* one pass of the loop over data_dir.iterdir(): the item is kept or skipped
ScanItem ==
    /\ scan_pc = "scanning"
    /\ ~IsNone(data_dir)
    /\ scan_pos < Len(Val(data_dir))
    /\ LET item == Val(data_dir)[scan_pos + 1]
       IN  /\ ~(item.is_dir /\ IsDigit(item.name) /\ IsNone(IntOf(item.name)))
           /\ experiment_folders' =
                IF /\ item.is_dir
                   /\ IsDigit(item.name)
                   /\ Val(IntOf(item.name)) >= start_from
                   /\ ~IsNone(FindImageInFolder(item.children))
                THEN Append(experiment_folders, item)
                ELSE experiment_folders
    /\ scan_pos' = scan_pos + 1
    /\ UNCHANGED scan_pc
    /\ ScanFixed

\* int(item.name) raises ValueError on a name that passed isdigit()
ScanItemRaises ==
    /\ scan_pc = "scanning"
    /\ ~IsNone(data_dir)
    /\ scan_pos < Len(Val(data_dir))
    /\ LET item == Val(data_dir)[scan_pos + 1]
       IN  item.is_dir /\ IsDigit(item.name) /\ IsNone(IntOf(item.name))
    /\ scan_pc' = "raised"
    /\ UNCHANGED << scan_pos, experiment_folders >>
    /\ ScanFixed

\* the loop is over: the list is sorted and returned
ScanReturns ==
    /\ scan_pc = "scanning"
    /\ ~IsNone(data_dir)
    /\ scan_pos = Len(Val(data_dir))
    /\ experiment_folders' = Sorted(experiment_folders)
    /\ scan_pc' = "returned"
    /\ UNCHANGED scan_pos
    /\ ScanFixed

ScanNext ==
    \/ DirMissing
    \/ ScanItem
    \/ ScanItemRaises
    \/ ScanReturns

SpecScan == ScanInit /\ [][ScanNext]_vars

(***************************************************************************)
(* The stream loop of one adapter run twice on the same stream: both runs  *)
(* are handed the same items and the same ending, each reads its own       *)
(* clock.                                                                  *)
(***************************************************************************)
\* the locals just before the try block, with start read from the run's clock
StartRun(start) == [frame |-> NewFrame(start), clock |-> start]

\* what perf_counter() can return to a run: its clock never goes backwards
RunReadings(r) == { r.clock + d : d \in 0..MaxTick }

\* one pass of the loop body of a run, the loop's end included when the
\* item is one the loop breaks on
TakeItem(p, r, item, now) ==
    [ frame |-> IF Breaks(p, item)
                THEN OnStreamEnd(p, OnItem(p, r.frame, item, now))
                ELSE OnItem(p, r.frame, item, now),
      clock |-> IF ReadsClock(p, r.frame, item) THEN now ELSE r.clock ]

ReplayInit ==
    /\ replay_provider \in Providers
    /\ first_run = StartRun(1)
    /\ \E start \in 1..(1 + MaxTick) : second_run = StartRun(start)
    /\ replay_count = 0
    /\ replay_pc = "streaming"
    /\ NoGenerate
    /\ NoRun
    /\ NoLogging
    /\ NoScan
    /\ NoMls

ReplayFixed == UNCHANGED << gvars, rvars, lvars, svars, mvars, replay_provider >>

\* the stream delivers its next item to both runs
ReplayItem ==
    /\ ReplayFixed
    /\ replay_pc = "streaming"
    /\ replay_count < MaxEvents
    /\ \E item \in StreamItems(replay_provider) :
         /\ \E now \in RunReadings(first_run) :
              first_run' = TakeItem(replay_provider, first_run, item, now)
         /\ \E now \in RunReadings(second_run) :
              second_run' = TakeItem(replay_provider, second_run, item, now)
         /\ replay_pc' = IF Breaks(replay_provider, item)
                         THEN "completed" ELSE "streaming"
    /\ replay_count' = replay_count + 1

\* the stream is exhausted in both runs
ReplayExhausted ==
    /\ ReplayFixed
    /\ replay_pc = "streaming"
    /\ first_run' = [first_run EXCEPT
                       !.frame = OnStreamEnd(replay_provider, @)]
    /\ second_run' = [second_run EXCEPT
                        !.frame = OnStreamEnd(replay_provider, @)]
    /\ replay_pc' = "completed"
    /\ UNCHANGED replay_count

\* the stream raises the same exception in both runs
ReplayRaises ==
    /\ ReplayFixed
    /\ replay_pc = "streaming"
    /\ \E exc \in Exceptions :
         /\ first_run' = [first_run EXCEPT
                            !.frame = OnException(replay_provider, @, exc)]
         /\ second_run' = [second_run EXCEPT
                             !.frame = OnException(replay_provider, @, exc)]
    /\ replay_pc' = "failed"
    /\ UNCHANGED replay_count

ReplayNext ==
    \/ ReplayItem
    \/ ReplayExhausted
    \/ ReplayRaises

SpecReplay == ReplayInit /\ [][ReplayNext]_vars

(***************************************************************************)
(* run_mls_experiments, from its call of get_all_experiment_folders on.    *)
(***************************************************************************)
MaxRuns == 2

\* the parameters JsonlLogger.__init__ requires besides self
LoggerParameters == {"output_path"}

\* the arguments of the call JsonlLogger() in run_mls_experiments
LoggerArguments == {}

\* a call binds its arguments if every required parameter is given
ConstructorBinds(parameters, arguments) == parameters \subseteq arguments

MlsInit ==
    /\ data_dir \in {None} \cup { Some(l) : l \in Listings }
    /\ start_from \in {0, 8}
    /\ scan_pos = 0
    /\ experiment_folders = <<>>
    /\ scan_pc = "scanning"
    /\ num_runs \in 1..MaxRuns
    /\ current_experiment = None
    /\ mls_error = None
    /\ mls_pc = "scanning"
    /\ NoGenerate
    /\ NoRun
    /\ NoLogging
    /\ NoReplay

MlsFixed == UNCHANGED << gvars, rvars, lvars, pvars, svars, num_runs >>

\* an exception of get_all_experiment_folders leaves run_mls_experiments
MlsScanRaises ==
    /\ MlsFixed
    /\ mls_pc = "scanning"
    /\ scan_pc = "raised"
    /\ mls_error' = Some("ValueError")
    /\ mls_pc' = "raised"
    /\ UNCHANGED current_experiment

\* if not experiment_folders: return
MlsNoFolders ==
    /\ MlsFixed
    /\ mls_pc = "scanning"
    /\ scan_pc = "returned"
    /\ experiment_folders = <<>>
    /\ mls_pc' = "returned"
    /\ UNCHANGED << current_experiment, mls_error >>

\* logger = JsonlLogger(): the call gives no output_path, so binding the
\* arguments raises TypeError before current_experiment is bound and before
\* the loop over the folders is entered
MlsLoggerRaises ==
    /\ MlsFixed
    /\ mls_pc = "scanning"
    /\ scan_pc = "returned"
    /\ experiment_folders # <<>>
    /\ ~ConstructorBinds(LoggerParameters, LoggerArguments)
    /\ mls_error' = Some("TypeError")
    /\ mls_pc' = "raised"
    /\ UNCHANGED current_experiment

MlsNext ==
    \/ ScanNext
    \/ MlsScanRaises
    \/ MlsNoFolders
    \/ MlsLoggerRaises

SpecMls == MlsInit /\ [][MlsNext]_vars

(***************************************************************************)
(* Properties of one generate call.                                        *)
(***************************************************************************)
Returned == pc = "returned"
Resp == Val(response)
\* generate has passed its first perf_counter() reading
Started == ~IsNone(frame.start)

\* C1: a returned response never has a non-null error_category together with
\* a non-null text.
C1_ErrorImpliesNoText ==
    Returned => ~(~IsNone(Resp.error_category) /\ ~IsNone(Resp.text))

\* C3: generate never lets an exception escape; a failure is reported in the
\* returned response, with error_category set and text absent.
C3_GenerateNeverRaises ==
    /\ IsNone(raised)
    /\ (Returned /\ IsNone(Resp.http_status))
         => (~IsNone(Resp.error_category) /\ IsNone(Resp.text))

\* C5: whenever ttft_ms is present, 0 <= ttft_ms <= total_latency_ms, in the
\* measured locals of every call and in every returned response.
C5_TtftWithinLatency ==
    /\ ~IsNone(frame.ttft_ms)
         => /\ 0 <= Val(frame.ttft_ms)
            /\ Val(frame.ttft_ms) <= Val(frame.total_latency_ms)
    /\ (Returned /\ ~IsNone(Resp.ttft_ms))
         => /\ 0 <= Val(Resp.ttft_ms)
            /\ Val(Resp.ttft_ms) <= Val(Resp.total_latency_ms)

\* C5 witness: a response of the failure path (an exception after some text)
\* that carries a positive ttft_ms.
C5_Witness ==
    /\ Returned
    /\ ~IsNone(Resp.error_category)
    /\ IsNone(Resp.text)
    /\ ~IsNone(Resp.ttft_ms)
    /\ Val(Resp.ttft_ms) > 0
    /\ Val(Resp.total_latency_ms) > Val(Resp.ttft_ms)

\* C6: when the returned text is not None and no output token count is
\* available, output_chars equals len(text), 0 for the empty text included.
C6_OutputCharsIsLen ==
    (Returned /\ ~IsNone(Resp.text) /\ IsNone(Resp.output_tokens))
        => Resp.output_chars = Some(Len(Val(Resp.text)))

\* C8: once the request is built, every key an override names carries the
\* override's value in the parameters sent to the vendor.
C8_OverridesWin ==
    Started =>
        \A k \in DOMAIN model_configurations :
            /\ k \in DOMAIN OverridableParams(provider, kwargs)
            /\ OverridableParams(provider, kwargs)[k] = model_configurations[k]

\* C9: the first-token timestamp is set at the first stream item that carries
\* a non-empty text fragment: it is present exactly when the stream has
\* delivered such a fragment, and ttft_ms is absent in a response whose stream
\* delivered none (no text items, or only empty ones).
C9_FirstTokenOnNonEmptyText ==
    /\ Started => (~IsNone(frame.first_token_time) <=> observed.carried # <<>>)
    /\ (Returned /\ observed.carried = <<>>) => IsNone(Resp.ttft_ms)

\* C10: in the Anthropic and Grok adapters the token counts are those of the
\* first chunk that carried a usage object, whatever follows it.
C10_FirstUsageWins ==
    (provider \in ChatProviders /\ ~IsNone(observed.first_usage))
        => /\ frame.input_tokens = Val(observed.first_usage).prompt_tokens
           /\ frame.output_tokens = Val(observed.first_usage).completion_tokens

\* C15: a stream item of an unknown kind is skipped.  In every state of the
\* loop, handling such an item leaves every local of the call as it is and
\* does not leave the loop; and the step that takes one changes nothing but
\* the count of items delivered: the call goes on as if the item had not
\* been in the stream.
C15_UnknownEventsAreSkipped ==
    /\ [](pc = "streaming" =>
            \A item \in StreamItems(provider) :
                ItemIsUnknown(provider, item) =>
                    /\ ~Breaks(provider, item)
                    /\ \A now \in Readings :
                           OnItem(provider, frame, item, now) = frame)
    /\ [][(observed'.count = observed.count + 1 /\ observed'.last_unknown)
            => /\ frame' = frame
               /\ pc' = pc
               /\ clock' = clock
               /\ response' = response
               /\ raised' = raised
               /\ observed' = [observed EXCEPT !.count = @ + 1,
                                               !.last_unknown = TRUE]]_vars

\* C15 witness: a response with a text and no error category, returned after
\* a stream whose last item, delivered after the text, was of an unknown kind.
C15_Witness ==
    /\ Returned
    /\ observed.last_unknown
    /\ observed.count = MaxEvents
    /\ observed.carried = << "a", "b" >>
    /\ Resp.text = Some(<< "a", "b" >>)
    /\ IsNone(Resp.error_category)

\* the states a call can move to from each of its states
NextPhases(phase) ==
    CASE phase = "idle" -> {"request-built", "raised"}
      [] phase = "request-built" -> {"streaming"}
      [] phase = "streaming" -> {"streaming", "completed", "failed"}
      [] phase \in {"completed", "failed"} -> {"returned", "raised"}
      [] OTHER -> {}

\* every step of a call follows the order of its phases
PhaseStep == pc' \in NextPhases(pc)

\* the streaming call is only made from a built request
OpensOnlyFromRequest ==
    (pc' = "streaming") => (pc \in {"request-built", "streaming"})

\* after the stream has ended nothing is taken from it any more
FrozenAfterEnd ==
    (pc \in {"completed", "failed", "returned", "raised"}) =>
        ( /\ pc' \notin {"idle", "request-built", "streaming"}
          /\ observed' = observed
          /\ frame'.accum_text_parts = frame.accum_text_parts
          /\ frame'.input_tokens = frame.input_tokens
          /\ frame'.output_tokens = frame.output_tokens
          /\ frame'.first_token_time = frame.first_token_time )

\* C19: a call moves idle -> request-built -> streaming -> completed or
\* failed and from there to its end, never backwards: the streaming call is
\* made once, from request-built, and not again after a failure; and once the
\* call is completed or failed no step takes another stream item or changes
\* the accumulated fragments, the token counts or the first-token time.
C19_OneStreamNoRetryFrozenAfterEnd ==
    /\ [][PhaseStep]_gvars
    /\ [][OpensOnlyFromRequest]_vars
    /\ [][FrozenAfterEnd]_vars

\* C19 witness: a call that failed after receiving text has returned its
\* response without taking another item.
C19_Witness ==
    /\ Returned
    /\ observed.ending = "exception"
    /\ observed.count = 2
    /\ observed.carried = << "a", "b" >>
    /\ ~IsNone(Resp.error_category)

\* the status of a returned response is 200 exactly when the try block ended
\* without an exception
Status200IffNoException ==
    Returned => ((Resp.http_status = Some(200)) <=> (observed.ending = "end"))

\* C23: a returned response has http_status 200 exactly when the streaming
\* block ended without raising, and a response with http_status 200 has no
\* error_category.
C23_Status200MeansNoError ==
    /\ Status200IffNoException
    /\ Returned => (Resp.http_status = Some(200) => IsNone(Resp.error_category))

(***************************************************************************)
(* Properties of a run.                                                    *)
(***************************************************************************)
RECURSIVE RowCount(_)
\* the number of rows held in a model_rows dict
RowCount(mr) ==
    IF mr = <<>> THEN 0 ELSE Len(Head(mr).rows) + RowCount(Tail(mr))

\* the rows held in a model_rows dict
RowsOf(mr) == UNION { { mr[k].rows[j] : j \in DOMAIN mr[k].rows } : k \in DOMAIN mr }

\* the roster entries whose generate was called in the current task
InvokedInTask == { c.entry : c \in { calls[k] : k \in DOMAIN calls } \cap
                                   [task : {task_no}, entry : DOMAIN roster] }

\* run_task has ended for the current task, by returning or by raising
TaskOver == main_pc \in {"writing", "crashed"}

\* C2: when run_task ends, it has invoked the adapter of every roster entry
\* and holds exactly one row per roster entry, whatever the adapters did.
C2_OneRowPerRosterEntry ==
    TaskOver => /\ InvokedInTask = DOMAIN roster
                /\ RowCount(model_rows) = Len(roster)

\* the rows built from finished generate calls that are not on disk yet
Unwritten ==
    CASE main_pc \in {"in-task", "crashed"} -> RowCount(model_rows)
      [] main_pc = "writing" ->
           RowCount(SubSeq(model_rows, write_no + 1, Len(model_rows)))
      [] OTHER -> 0

\* C4: at every point of a run at most one row produced by a finished
\* adapter call is not yet written and flushed to its file.
C4_AtMostOneUnwrittenRow == Unwritten <= 1

\* the configuration a record carries, None when it has no such field
RecordedConfig(row) ==
    IF "model_configurations" \in DOMAIN row
    THEN Some(row.model_configurations)
    ELSE None

\* C7: when overrides are supplied, every record of the task carries them
\* verbatim as its effective configuration.
C7_RecordsCarryOverrides ==
    DOMAIN AppliedConfig(inputs) # {} =>
        \A row \in RowsOf(model_rows) :
            RecordedConfig(row) = Some(AppliedConfig(inputs))

\* the stream of the call has ended without an exception and without an
\* error event
EndedCleanly == observed.ending = "end" /\ ~observed.error_seen

C12_LatencySpansConstructionAndStream ==
    /\ [](Returned => /\ ~IsNone(Resp.total_latency_ms)
                       /\ Resp.total_latency_ms =
                            Some((Val(frame.end) - Val(frame.start)) * 1000))
    /\ [][(pc = "idle" /\ pc' = "request-built") => Val(frame'.start) <= clock]_vars
    /\ [][(pc \in {"completed", "failed"} /\ pc' \in {"returned", "raised"})
            => Val(frame'.end) >= clock]_vars

\* main has opened the files of this run
FilesOpened ==
    \/ main_pc \in {"opened", "in-task", "writing", "done", "crashed"}
    \/ main_pc = "aborted" /\ crash = Some("ValueError")

\* the tasks main has finished: run_task has returned and its rows are written
CompletedTasks ==
    IF main_pc \in {"opened", "done"} THEN task_no
    ELSE IF main_pc \in {"in-task", "writing", "crashed"} THEN task_no - 1
    ELSE 0

\* the position of the slice_number column, which names the task of a row
SliceColumn == CHOOSE c \in DOMAIN burst_column : burst_column[c] = "slice_number"

\* C13: once opened, the file of every roster model starts with the header,
\* which occurs nowhere else in it, and the lines after it are the rows of the
\* tasks in the order they were processed, one per task; between two tasks
\* and at the end of the run, with k tasks completed, it holds header + k
\* rows, and while task k + 1 is in progress header + k or k + 1 rows.
C13_HeaderOnceThenOneRowPerTask ==
    FilesOpened =>
        \A m \in ModelNames(roster) :
            /\ ~IsNone(disk[m])
            /\ Len(Val(disk[m])) >= 1
            /\ Val(disk[m])[1] = burst_column
            /\ \A i \in 2..Len(Val(disk[m])) :
                   /\ Val(disk[m])[i] # burst_column
                   /\ Val(disk[m])[i][SliceColumn] = i - 1
            /\ Len(Val(disk[m])) >= 1 + CompletedTasks
            /\ Len(Val(disk[m])) <= 1 + task_no
            /\ main_pc \in {"opened", "done"}
                 => Len(Val(disk[m])) = 1 + CompletedTasks

\* C13 witness: a run that has completed two tasks and closed its files, each
\* file holding the header and the two rows in task order.
C13_Witness ==
    /\ main_pc = "done"
    /\ CompletedTasks = 2
    /\ \A m \in ModelNames(roster) :
          /\ Len(Val(disk[m])) = 3
          /\ Val(disk[m])[2][SliceColumn] = 1
          /\ Val(disk[m])[3][SliceColumn] = 2

\* C18: within a task generate is called for the roster entries in roster
\* order, starting with the first and skipping none; the rows run_task holds
\* are those of the entries invoked so far, in roster order, one per model;
\* and run_task returns only when every roster entry has been invoked and
\* has its row.
C18_RosterOrderAndFullReturn ==
    /\ \A i \in DOMAIN calls :
          IF i > 1 /\ calls[i].task = calls[i - 1].task
          THEN calls[i].entry = calls[i - 1].entry + 1
          ELSE calls[i].entry = 1
    /\ main_pc \in {"in-task", "writing", "crashed"} =>
          /\ Len(model_rows) <= Len(roster)
          /\ \A k \in DOMAIN model_rows :
                /\ model_rows[k].model = roster[k][2]
                /\ Len(model_rows[k].rows) = 1
                /\ k \in InvokedInTask
    /\ main_pc = "writing" =>
          /\ InvokedInTask = DOMAIN roster
          /\ Len(model_rows) = Len(roster)

\* C18 witness: run_task has returned from the second task of a run with the
\* rows of both models of a two-entry roster.
C18_Witness ==
    /\ main_pc = "writing"
    /\ task_no = 2
    /\ Len(roster) = 2
    /\ Len(calls) = 4
    /\ Len(model_rows) = 2
    /\ model_rows[1].model = roster[1][2]
    /\ model_rows[2].model = roster[2][2]

\* the credential of some roster model is not in the environment
CredentialMissing ==
    \E k \in DOMAIN roster : RequiredKeys(roster[k][1]) \cap env = {}

\* the run has ended by the failure of an adapter constructor
ConstructionFailed == crash = Some("OpenAIError")

\* C16: a missing credential fails the run at adapter construction, before any
\* task runs: in a run whose environment lacks the credential of a roster
\* model no generate call is ever made, and when a constructor fails for want
\* of a credential no generate call of any roster model has been made.
C16_MissingCredentialFailsBeforeAnyCall ==
    /\ CredentialMissing => calls = <<>>
    /\ ConstructionFailed => calls = <<>>

\* a step in which run_task calls generate
CallStep == calls' # calls

\* no step changes the inputs, and each call is handed the values made of them
InputsPassedUnchanged ==
    /\ inputs' = inputs
    /\ CallStep =>
          /\ request' = TaskRequest(inputs, tasks, task_no)
          /\ model_configurations' = AppliedConfig(inputs)

\* C21: the inputs of a task (system text, prompt text, image path, JSON
\* template, overrides) are not changed by any step of the run, the creation
\* of an adapter and its generate call included, and every generate call of
\* the task is handed the request and the overrides made of those inputs, so
\* each roster entry receives what the first one received.
C21_EveryEntryReceivesTheSameInputs == [][InputsPassedUnchanged]_vars

\* C21 witness: the second roster entry of a task has been called, in a run
\* with a JSON template and a non-empty overrides mapping.
C21_Witness ==
    /\ Len(calls) >= 2
    /\ calls[2].task = calls[1].task
    /\ calls[2].entry = 2
    /\ ~IsNone(inputs.json_template)
    /\ DOMAIN inputs.model_overrides # {}
    /\ ~IsNone(request.json_schema)
    /\ model_configurations = inputs.model_overrides

\* the command line names an unknown prompt or system text, or an image path
\* that is missing or no directory
InvalidInput == ~args.prompt_known \/ args.image # "dir"

\* a step that calls no adapter and leaves every file that exists as it is
LeavesOutputsAlone ==
    /\ calls' = <<>>
    /\ \A m \in DOMAIN disk : ~IsNone(disk[m]) => disk'[m] = disk[m]

\* C24: in a run on structurally invalid input (unknown prompt or system id
\* or version, image path not a directory) no step invokes an adapter and no
\* step changes an output file that already exists, so the run aborts with
\* the earlier files of its experiment id as they were.
C24_InvalidInputLeavesOutputsAlone == [][InvalidInput => LeavesOutputsAlone]_vars

(***************************************************************************)
(* Properties of the line-delimited log.                                   *)
(***************************************************************************)
\* the text of a file, empty when the file does not exist
TextOf(file) == IF IsNone(file) THEN <<>> ELSE Val(file)

RECURSIVE LinesOf(_)
\* the lines of a sequence of records, one after the other
LinesOf(records) ==
    IF records = <<>> THEN <<>>
    ELSE LogLine(Head(records)) \o LinesOf(Tail(records))

IsPrefix(a, b) == Len(a) <= Len(b) /\ SubSeq(b, 1, Len(a)) = a

\* the number of line breaks in a text
LineBreaks(t) == Cardinality({ i \in DOMAIN t : t[i] = "\n" })

\* C14: the log is append-only.  What the file holds together with what the
\* open handle still buffers is what the file held before the first write
\* followed by one line per record written, in call order; each line holds a
\* single line break, its last character; once a write has returned (no
\* handle is open) the file itself holds all of it; and no step changes or
\* removes what the file already held.
C14_LogIsAppendOnly ==
    /\ [](/\ TextOf(log_file) \o TextOf(log_handle)
                = TextOf(log_before) \o LinesOf(log_records)
          /\ \A i \in DOMAIN log_records :
                /\ LineBreaks(LogLine(log_records[i])) = 1
                /\ LogLine(log_records[i])[Len(LogLine(log_records[i]))] = "\n"
          /\ IsNone(log_handle)
                => TextOf(log_file) = TextOf(log_before) \o LinesOf(log_records))
    /\ [][IsPrefix(TextOf(log_file), TextOf(log_file'))]_vars

\* C14 witness: three writes have returned on a file that held a record
\* before, one of them a record whose text holds a line break.
C14_Witness ==
    /\ IsNone(log_handle)
    /\ TextOf(log_before) # <<>>
    /\ Len(log_records) = 3
    /\ \E i \in DOMAIN log_records :
          log_records[i].response_text = Some(<<"a", "\n", "b">>)
    /\ LineBreaks(TextOf(log_file)) = 4

(***************************************************************************)
(* Properties of the directory scan.                                       *)
(***************************************************************************)
\* the items of data_dir
ItemsOf(dir) == IF IsNone(dir) THEN {} ELSE { Val(dir)[i] : i \in DOMAIN Val(dir) }

\* the item is a sub-directory named by digits only, with a numeric ID of at
\* least start_from, holding an image file
IsExperimentFolder(item) ==
    /\ item.is_dir
    /\ IsDigit(item.name)
    /\ ~IsNone(IntOf(item.name))
    /\ Val(IntOf(item.name)) >= start_from
    /\ \E i \in DOMAIN item.children :
          /\ item.children[i].is_file
          /\ Lower(item.children[i].suffix) \in ImageExtensions

\* C17: get_all_experiment_folders returns, and what it returns is exactly
\* the sub-directories of data_dir whose name is all digits, whose numeric ID
\* is at least start_from and which hold an image file, each once, in
\* ascending order of numeric ID; the empty list when data_dir does not exist.
C17_ExactlyTheExperimentFoldersInOrder ==
    /\ scan_pc # "raised"
    /\ scan_pc = "returned" =>
         /\ { experiment_folders[i] : i \in DOMAIN experiment_folders }
               = { item \in ItemsOf(data_dir) : IsExperimentFolder(item) }
         /\ \A i, j \in DOMAIN experiment_folders :
               i < j => /\ experiment_folders[i] # experiment_folders[j]
                        /\ Val(IntOf(experiment_folders[i].name))
                             <= Val(IntOf(experiment_folders[j].name))
         /\ IsNone(data_dir) => experiment_folders = <<>>

(***************************************************************************)
(* Properties of the stream loop run twice.                                *)
(***************************************************************************)
\* the two sets of locals agree on what was accumulated from the stream
SameAccumulation(f, g) ==
    /\ f.accum_text_parts = g.accum_text_parts
    /\ f.text = g.text
    /\ f.input_tokens = g.input_tokens
    /\ f.output_tokens = g.output_tokens
    /\ IsNone(f.first_token_time) = IsNone(g.first_token_time)

\* C20: two runs of an adapter's stream loop over the same items with the
\* same ending hold, after every item and at the end, the same accumulated
\* fragments and text, the same token counts, and a first-token time that is
\* set in both or in neither, whatever each run reads from its clock.
C20_SameStreamSameAccumulation ==
    SameAccumulation(first_run.frame, second_run.frame)

\* C20 witness: both runs have accumulated "ab" and the token counts 3 and
\* 4 from a stream that is now exhausted, with different first-token times.
C20_Witness ==
    /\ replay_pc = "completed"
    /\ first_run.frame.text = Some(<< "a", "b" >>)
    /\ second_run.frame.text = Some(<< "a", "b" >>)
    /\ first_run.frame.input_tokens = Some(3)
    /\ first_run.frame.output_tokens = Some(4)
    /\ ~IsNone(first_run.frame.first_token_time)
    /\ first_run.frame.first_token_time # second_run.frame.first_token_time

(***************************************************************************)
(* Properties of run_mls_experiments.                                      *)
(***************************************************************************)
\* C22: once the folders have been listed, run_mls_experiments ends by
\* returning, never by an exception, and when there are folders its counter
\* then stands at (number of folders) x num_runs: every folder was attempted
\* num_runs times, failed runs included.
C22_EveryFolderAttemptedNumRunsTimes ==
    scan_pc = "returned" =>
        /\ mls_pc # "raised"
        /\ (mls_pc = "returned" /\ experiment_folders # <<>>) =>
              current_experiment = Some(Len(experiment_folders) * num_runs)

=========================================================================
